---- MODULE Spec2Model ----
(***************************************************************************)
(* State-machine model of ssp_bayes_opt.agent.SSPAgent                     *)
(* (src/ssp_bayes_opt/agent.py): construction, eval, update and            *)
(* select_optimal.                                                         *)
(*                                                                         *)
(* Numbers.  Coordinates, targets and variances are integers.  A quotient  *)
(* x / length_scale is kept exactly, as a reduced fraction <<num, den>>;   *)
(* den = 0 stands for numpy's inf / nan result of a division by zero.      *)
(* Square roots are fixed point with one decimal digit: SqrtFx(n) is       *)
(* floor(10 * sqrt(n)); acquisition scores and bonuses are kept times 10.  *)
(*                                                                         *)
(* Arrays.  A numpy array is a record of its ndim, its shape (nrows and    *)
(* ncols; a 1-D array of n entries has ncols = n) and its values v: one    *)
(* row of integers when 1-D, a sequence of rows when 2-D.                  *)
(*                                                                         *)
(* Results.  An operation that can raise yields [exc |-> "none", val |-> v]*)
(* or [exc |-> <exception name>].                                          *)
(***************************************************************************)
EXTENDS Integers, Sequences, FiniteSets, TLC

VARIABLES
    pc,            \* "new": before __init__; "idle": between calls; "restart": inside select_optimal's loop
    call,          \* the call in progress or last completed: its name and arguments
    ret,           \* what the last completed call returned or raised
    basis,         \* the arguments __init__ handed to the basis provider
    ptrs,          \* self.ptrs: one base pointer per input dimension
    length_scale,  \* self.length_scale
    blr,           \* self.blr: the posterior state [m, S, beta]
    gamma_t,       \* self.gamma_t
    phis,          \* self.phis: the encoding cache
    snap,          \* select_optimal: the defaults m, sigma, gamma, beta_inv bound when optim_func is defined
    vals,          \* select_optimal: vals
    solns,         \* select_optimal: solns
    phi_init,      \* select_optimal: the starting point of the latest restart
    again,         \* history: the last completed call repeated the call before it, name and arguments
    t              \* number of update calls that went through (bounds the model)

vars == <<pc, call, ret, basis, ptrs, length_scale, blr, gamma_t, phis,
          snap, vals, solns, phi_init, again, t>>

agent == <<basis, ptrs, length_scale, blr, gamma_t, phis>>
locals == <<snap, vals, solns, phi_init>>

----------------------------------------------------------------------------
(* Bounds of the model *)

\* update calls that go through in one behaviour
MaxUpdates == 2
\* observation noise passed to update ranges over 0..MaxSigma
MaxSigma == 1

\* the grid the coordinates of a point lie on
Coords == {0, 1, 2}

----------------------------------------------------------------------------
(* Program constants *)

\* self.num_restarts
num_restarts == 10
\* default of the parameters n_scales and n_rotates
DefaultCount == 8
\* default of the parameter axis_dim
DefaultAxisDim == 385
\* self.sqrt_alpha = np.log(2/1e-6) = 14.5087, times 10
sqrt_alpha_x10 == 145

----------------------------------------------------------------------------
(* Arithmetic *)

Abs(n) == IF n < 0 THEN -n ELSE n

Sign(n) == IF n < 0 THEN -1 ELSE IF n = 0 THEN 0 ELSE 1

Max(a, b) == IF a >= b THEN a ELSE b

RECURSIVE GCD(_, _)
GCD(a, b) == IF b = 0 THEN a ELSE GCD(b, a % b)

\* floor of the square root of n >= 0
ISqrt(n) == CHOOSE r \in 0..n : r * r <= n /\ (r + 1) * (r + 1) > n

\* np.sqrt(n), one decimal digit, times 10
SqrtFx(n) == ISqrt(100 * n)

\* x / l as numpy computes it for l >= 0: exact, and inf / nan (den = 0) for l = 0
Divide(x, l) ==
    IF l = 0 THEN <<Sign(x), 0>>
    ELSE LET g == GCD(Abs(x), l) IN <<x \div g, l \div g>>

Arr1(row) == [ndim |-> 1, nrows |-> 0, ncols |-> Len(row), v |-> row]
Arr2(rows) == [ndim |-> 2, nrows |-> Len(rows), ncols |-> Len(rows[1]), v |-> rows]

Ok(v) == [exc |-> "none", val |-> v]
Raise(e) == [exc |-> e]

NoArg == [given |-> FALSE, val |-> 0]
Arg(v) == [given |-> TRUE, val |-> v]

----------------------------------------------------------------------------
(* Collaborators outside agent.py: the basis provider (ssp.HexagonalBasis, *)
(* ssp.RandomBasis), the pointer algebra (ssp.encode, ssp.bind) and the    *)
(* posterior model (blr.BayesianLinearRegression), modelled from their     *)
(* contracts.                                                              *)

\* one base pointer per input dimension; pointer i is named by its index
BasisPointers(dim) == [i \in 1..dim |-> i]

\* pointer p raised to the fractional power r: the one-factor product p^r
ssp_encode(p, r) == <<<<p, r>>>>

\* binding: an associative, order-keeping product of factors
ssp_bind(a, b) == a \o b

\* prior predictive spread of an encoding the posterior has not seen
prior_var == 2

\* the posterior before any observation; m and S hold entries only for the
\* encodings observed so far (weight 0 and spread prior_var elsewhere)
BayesianLinearRegression == [m |-> <<>>, S |-> <<>>, beta |-> 1]

\* phi . m
MAt(m, phi) == IF phi \in DOMAIN m THEN m[phi] ELSE 0

\* phi . S . phi^T
SAt(S, phi) == IF phi \in DOMAIN S THEN S[phi] ELSE prior_var

\* blr.update with one (encoding, target) pair
blr_update_row(b, phi, y) ==
    [m |-> (phi :> (MAt(b.m, phi) + y)) @@ b.m,
     S |-> (phi :> Max(SAt(b.S, phi) - 1, 0)) @@ b.S,
     beta |-> b.beta]

\* blr.update(phis, ys): the rows are incorporated one after the other
RECURSIVE blr_update(_, _, _)
blr_update(b, rows, ys) ==
    IF rows = <<>> THEN b
    ELSE blr_update(blr_update_row(b, Head(rows), Head(ys)), Tail(rows), Tail(ys))

\* blr.predict(phis): mean and marginal variance at each row
blr_predict(b, rows) ==
    [mu |-> [i \in DOMAIN rows |-> MAt(b.m, rows[i])],
     var |-> [i \in DOMAIN rows |-> b.beta + SAt(b.S, rows[i])]]

----------------------------------------------------------------------------
(* SSPAgent._encode and SSPAgent.encode *)

\* functools.reduce(ssp.bind, vs): a left fold over a non-empty list
RECURSIVE reduce_bind(_)
reduce_bind(vs) ==
    IF Len(vs) = 1 THEN vs[1]
    ELSE ssp_bind(reduce_bind(SubSeq(vs, 1, Len(vs) - 1)), vs[Len(vs)])

\* one row of the output: column p_idx of the row is read for every pointer
encode_row(ps, row, ls) ==
    reduce_bind([p_idx \in DOMAIN ps |->
                    ssp_encode(ps[p_idx], Divide(row[p_idx], ls[p_idx]))])

\* the columns the rows of a 2-D array have
NumCols(x) == x.ncols

\* _encode(ptrs, x, length_scale): unpacking x.shape needs two dimensions, and
\* x[i, p_idx] an index inside the row; columns past len(ptrs) are never read
encode_(ps, x, ls) ==
    IF x.ndim # 2 THEN Raise("ValueError")
    ELSE IF NumCols(x) < Len(ps) THEN Raise("IndexError")
    ELSE Ok([i \in DOMAIN x.v |-> encode_row(ps, x.v[i], ls)])

\* self.encode(xs) of an agent with the fields ps, ls
encode(ps, ls, xs) == encode_(ps, xs, ls)

----------------------------------------------------------------------------
(* SSPAgent.__init__ *)

\* the value a parameter takes: the caller's, or the default
Param(a, default) == IF a.given THEN a.val ELSE default

\* int(np.sqrt((axis_dim - 1) / 6)), for axis_dim >= 1
BackSolve(axis_dim) ==
    CHOOSE n \in 0..axis_dim :
        6 * n * n <= axis_dim - 1 /\ 6 * (n + 1) * (n + 1) > axis_dim - 1

\* the counts handed to ssp.HexagonalBasis
HexCounts(axis_dim, n_scales, n_rotates) ==
    IF n_rotates = DefaultCount /\ n_scales = DefaultCount /\ axis_dim # DefaultAxisDim
    THEN [n_rotates |-> BackSolve(axis_dim), n_scales |-> BackSolve(axis_dim)]
    ELSE [n_rotates |-> n_rotates, n_scales |-> n_scales]

\* the call to the basis provider
BasisCall(a) ==
    LET data_dim == NumCols(a.init_xs)
        axis_dim == Param(a.axis_dim, DefaultAxisDim)
        c == HexCounts(axis_dim, Param(a.n_scales, DefaultCount),
                       Param(a.n_rotates, DefaultCount))
    IN  IF a.axis_type = "hex"
        THEN [provider |-> "HexagonalBasis", dim |-> data_dim,
              n_rotates |-> c.n_rotates, n_scales |-> c.n_scales]
        ELSE [provider |-> "RandomBasis", dim |-> data_dim,
              n_rotates |-> 0, n_scales |-> axis_dim]

\* the values retval.x the unconstrained search over the length scales can end on
SearchValues == {-2, 0, 1}

minimize_lengthscale(data_dim) == [1..data_dim -> SearchValues]

\* _optimize_lengthscale returns np.abs(retval.x)
optimize_lengthscale(x) == [i \in DOMAIN x |-> Abs(x[i])]

\* the fields of the agent __init__(a) leaves, the search having ended on x
Constructed(a, x) ==
    LET b == BasisCall(a)
        ps == BasisPointers(b.dim)
        ls == optimize_lengthscale(x)
        init_phis == encode(ps, ls, a.init_xs)
    IN  [basis |-> b, ptrs |-> ps, length_scale |-> ls,
         blr |-> blr_update(BayesianLinearRegression, init_phis.val, a.init_ys),
         gamma_t |-> 0,
         phis |-> [set |-> FALSE]]

NoRet == [exc |-> "pending"]
NoSnap == [m |-> <<>>, sigma |-> <<>>, gamma |-> 0, beta_inv |-> 0]

SSPAgent_init ==
    /\ pc = "new"
    /\ \E x \in minimize_lengthscale(NumCols(call.args.init_xs)) :
          LET f == Constructed(call.args, x)
          IN  /\ basis' = f.basis
              /\ ptrs' = f.ptrs
              /\ length_scale' = f.length_scale
              /\ blr' = f.blr
              /\ gamma_t' = f.gamma_t
              /\ phis' = f.phis
    /\ pc' = "idle"
    /\ ret' = Ok(<<>>)
    /\ UNCHANGED <<call, locals, again, t>>

----------------------------------------------------------------------------
(* SSPAgent.eval *)

\* self.phis after lines 85-87, or the exception encode raised
eval_phis(cache, ps, ls, xs) ==
    IF ~cache.set THEN encode(ps, ls, xs) ELSE Ok(cache.val)

\* lines 88-90: (mu, var, phi) from the encodings ph; phi is kept times 10
eval_result(ph, b, gamma) ==
    LET p == blr_predict(b, ph)
    IN  [mu |-> p.mu, var |-> p.var,
         phi |-> [i \in DOMAIN ph |->
                    (sqrt_alpha_x10 * (SqrtFx(p.var[i] + gamma) - SqrtFx(gamma))) \div 10]]

\* eval that predicts from the cache it found and only then caches encode(xs)
eval_stale(xs) ==
    /\ pc = "idle"
    /\ LET fresh == encode(ptrs, length_scale, xs)
           ph == IF phis.set THEN Ok(phis.val) ELSE fresh
       IN  IF fresh.exc # "none"
           THEN /\ ret' = fresh
                /\ UNCHANGED phis
           ELSE /\ phis' = [set |-> TRUE, val |-> fresh.val]
                /\ ret' = Ok(eval_result(ph.val, blr, gamma_t))
    /\ call' = [op |-> "eval", xs |-> xs]
    /\ again' = (call = call')
    /\ UNCHANGED <<pc, basis, ptrs, length_scale, blr, gamma_t, locals, t>>

eval(xs) ==
    /\ pc = "idle"
    /\ LET ph == eval_phis(phis, ptrs, length_scale, xs)
       IN  IF ph.exc # "none"
           THEN /\ ret' = ph
                /\ UNCHANGED phis
           ELSE /\ phis' = [set |-> TRUE, val |-> ph.val]
                /\ ret' = Ok(eval_result(ph.val, blr, gamma_t))
    /\ call' = [op |-> "eval", xs |-> xs]
    /\ again' = (call = call')
    /\ UNCHANGED <<pc, basis, ptrs, length_scale, blr, gamma_t, locals, t>>

----------------------------------------------------------------------------
(* SSPAgent.update *)

\* lines 151-156: a 1-D x_t becomes one row (and y_t one row of the same targets)
update_x_val(x_t) == IF x_t.ndim < 2 THEN Arr2(<<x_t.v>>) ELSE x_t

\* gamma_t advanced once per row of the batch
update_gamma_per_row(gamma, x_val, sigma_t) == gamma + x_val.nrows * sigma_t

\* line 163, once per call whatever the rows of x_val
update_gamma(gamma, x_val, sigma_t) == gamma + sigma_t

update(x_t, y_t, sigma_t) ==
    /\ pc = "idle"
    /\ t < MaxUpdates
    /\ LET phi == encode(ptrs, length_scale, update_x_val(x_t))
       IN  IF phi.exc # "none"
           THEN /\ ret' = phi
                /\ UNCHANGED <<blr, gamma_t, t>>
           ELSE /\ blr' = blr_update(blr, phi.val, y_t)
                /\ gamma_t' = update_gamma(gamma_t, update_x_val(x_t), sigma_t)
                /\ t' = t + 1
                /\ ret' = Ok(<<>>)
    /\ call' = [op |-> "update", x_t |-> x_t, y_t |-> y_t, sigma_t |-> sigma_t]
    /\ again' = (call = call')
    /\ UNCHANGED <<pc, basis, ptrs, length_scale, phis, locals>>

----------------------------------------------------------------------------
(* SSPAgent.select_optimal *)

\* the grid points of the box, one coordinate per entry of bounds
Box(bounds) ==
    {x \in [1..Len(bounds) -> Coords] :
        \A i \in 1..Len(bounds) : bounds[i][1] <= x[i] /\ x[i] <= bounds[i][2]}

\* line 130: np.random.uniform(low, high) draws inside the box
uniform(bounds) == Box(bounds)

\* lines 97-105: the objective, with the defaults d bound at its definition;
\* the value is kept times 10
optim_func(x, d, ps, ls) ==
    LET ptr == encode(ps, ls, Arr2(<<x>>))
    IN  IF ptr.exc # "none" THEN ptr
        ELSE Ok(-(10 * MAt(d.m, ptr.val[1])
                  + SqrtFx(d.gamma + d.beta_inv + SAt(d.sigma, ptr.val[1]))
                  - SqrtFx(d.gamma)))

\* the minimizer called without bounds=bounds: any grid point of that width
minimize_x_unbounded(bounds) == [1..Len(bounds) -> Coords]

\* line 133: the points minimize(..., method='L-BFGS-B', bounds=bounds) can
\* return: the local optimum lies inside the box it is given
minimize_x(bounds) == Box(bounds)

\* select_optimal with line 122 written as self.phis = []
select_optimal_writes_cache(bounds) ==
    /\ pc = "idle"
    /\ pc' = "restart"
    /\ call' = [op |-> "select_optimal", bounds |-> bounds]
    /\ again' = (call = call')
    /\ ret' = NoRet
    /\ snap' = [m |-> blr.m, sigma |-> blr.S, gamma |-> gamma_t, beta_inv |-> blr.beta]
    /\ vals' = <<>>
    /\ solns' = <<>>
    /\ phi_init' = <<>>
    /\ phis' = [set |-> TRUE, val |-> <<>>]
    /\ UNCHANGED <<basis, ptrs, length_scale, blr, gamma_t, t>>

\* lines 97-100 and 120-122: the defaults are bound, the lists are empty
select_optimal(bounds) ==
    /\ pc = "idle"
    /\ pc' = "restart"
    /\ call' = [op |-> "select_optimal", bounds |-> bounds]
    /\ again' = (call = call')
    /\ ret' = NoRet
    /\ snap' = [m |-> blr.m, sigma |-> blr.S, gamma |-> gamma_t, beta_inv |-> blr.beta]
    /\ vals' = <<>>
    /\ solns' = <<>>
    /\ phi_init' = <<>>
    /\ UNCHANGED <<agent, t>>

\* the local names are gone when the call ends
Leave(r) ==
    /\ pc' = "idle"
    /\ ret' = r
    /\ snap' = NoSnap
    /\ vals' = <<>>
    /\ solns' = <<>>
    /\ phi_init' = <<>>

\* lines 130-135, one pass of the loop: the minimizer returns soln, with
\* soln.fun the objective at soln.x; an exception of the objective leaves
\* the loop and the call
restart ==
    /\ pc = "restart"
    /\ Len(vals) < num_restarts
    /\ \E x0 \in uniform(call.bounds) :
          LET f0 == optim_func(x0, snap, ptrs, length_scale)
          IN  IF f0.exc # "none"
              THEN Leave([exc |-> f0.exc, failed |-> 1, done |-> Len(vals)])
              ELSE \E x \in minimize_x(call.bounds) :
                      /\ vals' = Append(vals, -(optim_func(x, snap, ptrs, length_scale).val))
                      /\ solns' = Append(solns, x)
                      /\ phi_init' = x0
                      /\ UNCHANGED <<pc, ret, snap>>
    /\ UNCHANGED <<call, agent, again, t>>

\* line 133 when the local optimizer itself raises: nothing catches it
restart_raises ==
    /\ pc = "restart"
    /\ Len(vals) < num_restarts
    /\ Leave([exc |-> "OptimizerError", failed |-> 1, done |-> Len(vals)])
    /\ UNCHANGED <<call, agent, again, t>>

\* np.argmin in the place of np.argmax
argmin(v) ==
    CHOOSE i \in DOMAIN v :
        /\ \A j \in DOMAIN v : v[j] >= v[i]
        /\ \A j \in 1..(i - 1) : v[j] > v[i]

\* np.argmax: the first index of the largest value
argmax(v) ==
    CHOOSE i \in DOMAIN v :
        /\ \A j \in DOMAIN v : v[j] <= v[i]
        /\ \A j \in 1..(i - 1) : v[j] < v[i]

\* lines 137-143
select_optimal_return ==
    /\ pc = "restart"
    /\ Len(vals) = num_restarts
    /\ LET best_val_idx == argmax(vals)
       IN  Leave(Ok([x |-> Arr2(<<solns[best_val_idx]>>),
                     score |-> vals[best_val_idx],
                     third |-> 0]))
    /\ UNCHANGED <<call, agent, again, t>>

----------------------------------------------------------------------------
(* The inputs *)

\* points of the right width
Points == {<<0, 1>>, <<1, 0>>, <<1, 1>>}

\* a row one column short, and a row with one column too many
NarrowRow == <<1>>
WideRow == <<0, 1, 1>>

TwoRows == Arr2(<<<<0, 1>>, <<1, 0>>>>)

\* the batches eval is called with
EvalInputs ==
    {Arr2(<<r>>) : r \in Points} \cup {Arr2(<<NarrowRow>>), Arr2(<<WideRow>>), TwoRows}

\* (x_t, y_t) of update: 1-D points and a 2-D batch, one target per row
UpdateInputs ==
    {<<Arr1(r), <<1>>>> : r \in Points}
    \cup {<<Arr1(<<1, 0>>), <<2>>>>, <<Arr1(NarrowRow), <<1>>>>, <<Arr1(WideRow), <<1>>>>,
          <<TwoRows, <<1, 2>>>>}

\* bounds whose box is one point, and a list that is one dimension short
PointBounds == {[i \in 1..2 |-> <<r[i], r[i]>>] : r \in Points} \cup {<<<<0, 1>>>>}

MainArgs == [init_xs |-> Arr2(<<<<0, 1>>>>), init_ys |-> <<1>>, axis_type |-> "hex",
             axis_dim |-> NoArg, n_scales |-> NoArg, n_rotates |-> NoArg]

\* the agent after SSPAgent(init_xs, init_ys), the search having ended on (1, -2)
Init ==
    LET f == Constructed(MainArgs, <<1, -2>>)
    IN  /\ pc = "idle"
        /\ call = [op |-> "__init__", args |-> MainArgs]
        /\ ret = Ok(<<>>)
        /\ basis = f.basis
        /\ ptrs = f.ptrs
        /\ length_scale = f.length_scale
        /\ blr = f.blr
        /\ gamma_t = f.gamma_t
        /\ phis = f.phis
        /\ snap = NoSnap
        /\ vals = <<>>
        /\ solns = <<>>
        /\ phi_init = <<>>
        /\ again = FALSE
        /\ t = 0

Next ==
    \/ \E xs \in EvalInputs : eval(xs)
    \/ \E u \in UpdateInputs, sigma_t \in 0..MaxSigma : update(u[1], u[2], sigma_t)
    \/ \E bounds \in PointBounds : select_optimal(bounds)
    \/ restart
    \/ restart_raises
    \/ select_optimal_return

Spec == Init /\ [][Next]_vars

----------------------------------------------------------------------------
(* select_optimal over boxes of more than one point *)

\* bounds whose box holds two grid points, and bounds whose box holds one
WideBounds == {<<<<0, 1>>, <<1, 1>>>>, <<<<1, 1>>, <<0, 0>>>>}

SelectUpdateInputs == {<<Arr1(<<1, 1>>), <<1>>>>}

SelectEvalInputs == {Arr2(<<<<1, 0>>>>)}

NextSelect ==
    \/ \E xs \in SelectEvalInputs : eval(xs)
    \/ \E u \in SelectUpdateInputs, sigma_t \in 0..MaxSigma : update(u[1], u[2], sigma_t)
    \/ \E bounds \in WideBounds : select_optimal(bounds)
    \/ restart
    \/ restart_raises
    \/ select_optimal_return

SpecSelect == Init /\ [][NextSelect]_vars

----------------------------------------------------------------------------
(* Construction *)

AxisDims == {NoArg, Arg(385), Arg(151), Arg(7)}
Counts == {NoArg, Arg(8), Arg(3)}
InitBatches == {<<Arr2(<<<<1>>>>), <<1>>>>, <<Arr2(<<<<0, 1>>, <<1, 0>>>>), <<1, 2>>>>}

CtorArgs ==
    {[init_xs |-> b[1], init_ys |-> b[2], axis_type |-> ty,
      axis_dim |-> ad, n_scales |-> ns, n_rotates |-> nr] :
        b \in InitBatches, ty \in {"hex", "random"},
        ad \in AxisDims, ns \in Counts, nr \in Counts}

InitCtor ==
    /\ pc = "new"
    /\ call \in {[op |-> "__init__", args |-> a] : a \in CtorArgs}
    /\ ret = NoRet
    /\ basis = [provider |-> "none", dim |-> 0, n_rotates |-> 0, n_scales |-> 0]
    /\ ptrs = <<>>
    /\ length_scale = <<>>
    /\ blr = BayesianLinearRegression
    /\ gamma_t = 0
    /\ phis = [set |-> FALSE]
    /\ snap = NoSnap
    /\ vals = <<>>
    /\ solns = <<>>
    /\ phi_init = <<>>
    /\ again = FALSE
    /\ t = 0

NextCtor == SSPAgent_init

SpecCtor == InitCtor /\ [][NextCtor]_vars

----------------------------------------------------------------------------
(* The properties *)

\* what eval(xs) returns when it is computed from the encoding of xs itself
EvalOf(xs) ==
    LET e == encode(ptrs, length_scale, xs)
    IN  IF e.exc # "none" THEN e ELSE Ok(eval_result(e.val, blr, gamma_t))

\* C1: every eval(xs) returns the prediction and bonus computed from the
\* encoding of the batch xs of that same call.
C1_EvalUsesOwnBatch ==
    (pc = "idle" /\ call.op = "eval") => ret = EvalOf(call.xs)

\* a step that is a completed update call
UpdateStep == pc = "idle" /\ call'.op = "update"

\* C2: gamma_t is 0 after construction; an update that goes through adds its
\* sigma_t exactly once, for a 1-D point and for a batch of several rows;
\* no other step changes gamma_t, so it never decreases.
C2_GammaAccumulates ==
    /\ gamma_t = 0
    /\ [][/\ gamma_t' >= gamma_t
          /\ IF UpdateStep /\ ret'.exc = "none"
             THEN gamma_t' = gamma_t + call'.sigma_t
             ELSE gamma_t' = gamma_t]_vars

\* an update with a two-row batch and sigma_t = 1 went through after an
\* earlier update
C2_Witness ==
    /\ pc = "idle" /\ call.op = "update" /\ ret.exc = "none"
    /\ call.x_t.ndim = 2 /\ call.x_t.nrows = 2 /\ call.sigma_t = 1
    /\ t = 2 /\ gamma_t = 2

\* the acquisition score of x under the defaults d
Score(x, d) == -(optim_func(x, d, ptrs, length_scale).val)

InBounds(x, bounds) ==
    /\ Len(x) = Len(bounds)
    /\ \A i \in 1..Len(bounds) : bounds[i][1] <= x[i] /\ x[i] <= bounds[i][2]

\* C4: with lower <= upper in every dimension and a minimizer that stays in
\* its box, every candidate of the loop, and so the point select_optimal
\* returns, has each coordinate i within [bounds[i].lower, bounds[i].upper].
C4_ReturnedPointInBounds ==
    /\ pc = "restart" => \A i \in DOMAIN solns : InBounds(solns[i], call.bounds)
    /\ (pc = "idle" /\ call.op = "select_optimal" /\ ret.exc = "none") =>
            /\ ret.val.x.nrows = 1
            /\ InBounds(ret.val.x.v[1], call.bounds)

\* select_optimal returned a point of a two-point box after an update and an eval
C4_Witness ==
    /\ pc = "idle" /\ call.op = "select_optimal" /\ ret.exc = "none"
    /\ call.bounds = <<<<0, 1>>, <<1, 1>>>>
    /\ ret.val.x = Arr2(<<<<0, 1>>>>)
    /\ t > 0 /\ phis.set

\* C5: an eval or update whose input has a number of columns other than D,
\* smaller or larger, fails; none succeeds.
C5_WrongWidthFails ==
    (/\ pc = "idle"
     /\ call.op \in {"eval", "update"}
     /\ (IF call.op = "eval" THEN call.xs.ncols ELSE call.x_t.ncols) # Len(ptrs))
    => ret.exc # "none"

\* C6: select_optimal ends in a failure only when all num_restarts restarts
\* failed; one failing restart leaves the others to run.
C6_OneFailedRestartTolerated ==
    (pc = "idle" /\ call.op = "select_optimal" /\ ret.exc # "none")
    => ret.failed = num_restarts

\* C7: after construction every entry of length_scale is strictly positive,
\* whatever the search returned.
C7_LengthScalePositive ==
    pc = "idle" => \A i \in DOMAIN length_scale : length_scale[i] > 0

\* C8: an eval that repeats the eval before it, same batch and nothing in
\* between, returns the same (mu, var, bonus).
C8_EvalIdempotent ==
    [][(/\ pc = "idle" /\ call.op = "eval"
        /\ call'.op = "eval" /\ call'.xs = call.xs)
       => ret' = ret]_vars

\* the same batch was evaluated twice in a row, after an update and with a
\* cache that holds another batch
C8_Witness ==
    /\ pc = "idle" /\ call.op = "eval" /\ again /\ ret.exc = "none"
    /\ t > 0
    /\ phis.set /\ Ok(phis.val) # encode(ptrs, length_scale, call.xs)

\* floor(sqrt((axis_dim - 1) / 6))
FloorSqrtSixth(axis_dim) == ISqrt((axis_dim - 1) \div 6)

\* C9: the hexagonal basis gets n_rotates = n_scales =
\* floor(sqrt((axis_dim - 1) / 6)) exactly when the caller gives axis_dim and
\* neither count; counts the caller chose are handed over unchanged.
C9_BackSolveOnlyWithoutCounts ==
    (pc = "idle" /\ call.op = "__init__" /\ call.args.axis_type = "hex") =>
        LET a == call.args
        IN  IF a.axis_dim.given /\ ~a.n_rotates.given /\ ~a.n_scales.given
            THEN /\ basis.n_rotates = FloorSqrtSixth(a.axis_dim.val)
                 /\ basis.n_scales = FloorSqrtSixth(a.axis_dim.val)
            ELSE /\ basis.n_rotates = Param(a.n_rotates, DefaultCount)
                 /\ basis.n_scales = Param(a.n_scales, DefaultCount)

\* C10: ptrs and length_scale never change; (m, S, beta) and gamma_t change
\* only in update; eval writes nothing but the cache and select_optimal not
\* even that; every restart of a call is scored under the snapshot of
\* (m, S, gamma_t, beta) taken when the call began.
C10_FrameAndSnapshot ==
    [][/\ ptrs' = ptrs /\ length_scale' = length_scale /\ basis' = basis
       /\ (blr' # blr \/ gamma_t' # gamma_t) => UpdateStep
       /\ phis' # phis => (pc = "idle" /\ call'.op = "eval")
       /\ (pc = "idle" /\ pc' = "restart") =>
            snap' = [m |-> blr.m, sigma |-> blr.S, gamma |-> gamma_t, beta_inv |-> blr.beta]
       /\ (pc = "restart" /\ pc' = "restart") =>
            /\ snap' = snap
            /\ vals'[Len(vals')] = Score(solns'[Len(vals')], snap)]_vars

\* all ten restarts of a select_optimal call are in, on an agent that was
\* updated and holds a cache
C10_Witness ==
    /\ pc = "restart" /\ Len(vals) = num_restarts
    /\ t > 0 /\ gamma_t > 0 /\ phis.set

====
